---- MODULE Spec2Model ----
(***************************************************************************)
(* Model of src/app.py: a Streamlit script that is re-executed top to      *)
(* bottom after every user interaction.  State that survives a script run  *)
(* is the widget state (uploader, model select box, alpha-matting check    *)
(* box), st.session_state.processed_images and the st.cache_resource cache *)
(* of load_ai_session.  The remaining variables record what the current    *)
(* script run has emitted so far (progress values, st.error messages, the  *)
(* archive, the download buttons, the comparison images).                  *)
(***************************************************************************)
EXTENDS Integers, Sequences, FiniteSets, TLC

\* ------------------------------------------------------------------ bounds
MaxFiles == 3
MaxLoadFailures == 1

\* ------------------------------------------------------------- value sets
\* A filename is the sequence of its dot-separated parts.
Names == { <<"cat", "png">>, <<"cat", "jpg">>, <<"a", "png">> }
\* Uploaded bytes: one value PIL cannot decode, two distinct valid images.
Corrupt == "corrupt"
Data == { Corrupt, "img1", "img2" }
\* model_map values (lines 65-69)
Models == { "u2net", "u2net_human_seg", "u2netp" }

VARIABLES
    uploaded_files,     \* st.file_uploader value: Seq of [name, data]
    selected_model,     \* model_map[model_option]
    use_alpha_matting,  \* check box
    processed_images,   \* st.session_state.processed_images (ordered dict)
    cache,              \* st.cache_resource of load_ai_session: model -> instance
                        \* (a function on the models cached so far)
    sessions,           \* sessions[k] = model of the k-th session new_session built
    load_failures,      \* number of new_session calls that raised
    pc,                 \* position of the script: idle, batch, loop, results
    i,                  \* loop variable of line 116 (0-based)
    session,            \* local variable session of line 110 (0: not assigned)
    clicked,            \* the run was triggered by the Process New Batch button
    batch_inputs,       \* filenames of the most recent batch (line 107 taken)
    produced_by,        \* filename -> 0-based index of the item whose output is stored
    attempts,           \* indices passed to process_single_image in this run
    errors,             \* st.error messages of this run: [item, name]
    progress,           \* values given to progress_bar.progress in this run
    bar,                \* progress bar widget: none, shown, emptied
    fatal,              \* load_ai_session raised in this run
    zip,                \* archive written by this run: Seq of [name, data]
    downloads,          \* download buttons rendered by this run
    originals,          \* uploads shown as "Original" by this run, in order
    crashed,            \* exception that ended the comparison loop, or none
    button              \* the Process New Batch button was rendered by this run

vars == << uploaded_files, selected_model, use_alpha_matting, processed_images,
           cache, sessions, load_failures, pc, i, session, clicked, batch_inputs,
           produced_by, attempts, errors, progress, bar, fatal, zip, downloads,
           originals, crashed, button >>

widgets == << uploaded_files, selected_model, use_alpha_matting >>
runlog  == << attempts, errors, progress, bar, fatal, zip, downloads, originals,
              crashed, button >>

\* --------------------------------------------------------------- helpers
\* Path(file_name).stem: the name without its last suffix
Stem(file_name) ==
    IF Len(file_name) > 1 THEN SubSeq(file_name, 1, Len(file_name) - 1)
    ELSE file_name

\* f"no_bg_{Path(file_name).stem}.png"
ArchiveName(file_name) == <<"no_bg_">> \o Stem(file_name) \o <<"png">>

\* Python dict: keys in insertion order
DictHas(d, key) == \E k \in DOMAIN d : d[k].key = key
DictGet(d, key) == d[CHOOSE k \in DOMAIN d : d[k].key = key].val

\* Faulty variants of DictSet: setdefault, and delete followed by insert.
DictSetKeepFirst(d, key, val) ==
    IF DictHas(d, key) THEN d ELSE Append(d, [key |-> key, val |-> val])
DictSetMoveToEnd(d, key, val) ==
    Append(SelectSeq(d, LAMBDA e : e.key # key), [key |-> key, val |-> val])
\* d[key] = val: a key already present keeps its position and gets the new
\* value; a new key is appended.
DictSet(d, key, val) ==
    IF DictHas(d, key)
    THEN [k \in DOMAIN d |-> IF d[k].key = key THEN [key |-> key, val |-> val] ELSE d[k]]
    ELSE Append(d, [key |-> key, val |-> val])

\* remove(input_image, session=session, alpha_matting=...): opaque capability
Remove(data, s, alpha) == [of |-> data, session |-> s, alpha |-> alpha]
\* output_image.save(buf, format='PNG'); buf.getvalue()
PngBytes(image) == <<"PNG", image>>

\* Outcomes process_single_image can have on an upload (lines 31-44):
\* Image.open fails on undecodable bytes; remove and save may fail.
Outcomes(file) ==
    IF file.data = Corrupt THEN {"DecodeFailure"}
    ELSE {"ok", "InferenceFailure", "EncodeFailure"}

Init ==
    /\ uploaded_files = << >>
    /\ selected_model = "u2net"
    /\ use_alpha_matting = FALSE
    /\ processed_images = << >>
    /\ cache = << >>
    /\ sessions = << >>
    /\ load_failures = 0
    /\ pc = "batch"
    /\ i = 0
    /\ session = 0
    /\ clicked = FALSE
    /\ batch_inputs = {}
    /\ produced_by = << >>
    /\ attempts = << >>
    /\ errors = << >>
    /\ progress = << >>
    /\ bar = "none"
    /\ fatal = FALSE
    /\ zip = << >>
    /\ downloads = << >>
    /\ originals = << >>
    /\ crashed = "none"
    /\ button = FALSE


\* ------------------------------------------------------ process_single_image
\* Lines 29-44: the processed image and its PNG bytes, or (None, None)
\* after the except branch has reported the error.
process_single_image(file, s, alpha, outcome) ==
    IF outcome = "ok"
    THEN [ok |-> TRUE, image |-> Remove(file.data, s, alpha),
          bytes |-> PngBytes(Remove(file.data, s, alpha))]
    ELSE [ok |-> FALSE]

\* Faulty variant of StoreResult: nothing is stored once an item has failed.
StoreUntilFirstError(d, file, result) ==
    IF result.ok /\ errors = << >>
    THEN DictSet(d, file.name, [original_name |-> file.name,
                                image |-> result.image, bytes |-> result.bytes])
    ELSE d
\* Lines 121-127: if processed_img: processed_images[name] = {...}
StoreResult(d, file, result) ==
    IF result.ok
    THEN DictSet(d, file.name, [original_name |-> file.name,
                                image |-> result.image, bytes |-> result.bytes])
    ELSE d

\* Faulty variant of ProgressValue: i / len(uploaded_files)
ProgressFromZero(idx, n) == <<idx, n>>
\* Line 130: (i + 1) / len(uploaded_files), kept as numerator and denominator
ProgressValue(idx, n) == <<idx + 1, n>>

\* ------------------------------------------------------------ load_ai_session
\* Faulty variant of CacheHit: the function is not cached.
CacheNeverHit(m) == FALSE
\* st.cache_resource: a value is returned from the cache when one is stored
\* for the argument.
CacheHit(m) == m \in DOMAIN cache

\* Faulty variant of ScriptAfterLoadError: the exception is swallowed.
ScriptContinuesAfterLoadError == "loop"
\* An exception of load_ai_session (line 110) is not caught: the script run
\* ends there.
ScriptAfterLoadError == "idle"

\* ------------------------------------------------------------ results block
\* Faulty variants of BuildZip: the store is written in reverse order; a
\* name already in the archive is skipped.
BuildZipReversed(d) ==
    [k \in DOMAIN d |-> [name |-> ArchiveName(d[Len(d) + 1 - k].key),
                         data |-> d[Len(d) + 1 - k].val.bytes]]
BuildZipFirstWins(d) ==
    LET keep == { k \in DOMAIN d :
                    \A j \in 1..(k - 1) : ArchiveName(d[j].key) # ArchiveName(d[k].key) }
        F[k \in 0..Len(d)] ==
            IF k = 0 THEN << >>
            ELSE IF k \in keep
                 THEN Append(F[k - 1], [name |-> ArchiveName(d[k].key),
                                        data |-> d[k].val.bytes])
                 ELSE F[k - 1]
    IN F[Len(d)]
\* Lines 141-147: one writestr per store entry, in store order.  ZipFile
\* appends an entry even when the name is already in the archive.
BuildZip(d) ==
    [k \in DOMAIN d |-> [name |-> ArchiveName(d[k].key), data |-> d[k].val.bytes]]

\* Reading a path of the archive: the entry written last under that name.
ZipNames(z) == { z[k].name : k \in DOMAIN z }
ZipRead(z, name) ==
    LET last == CHOOSE k \in DOMAIN z :
                    /\ z[k].name = name
                    /\ \A j \in DOMAIN z : z[j].name = name => j <= k
    IN z[last].data

\* Lines 158-165: one download button per store entry, in store order.
BuildDownloads(d) ==
    [k \in DOMAIN d |-> [file_name |-> ArchiveName(d[k].key),
                         data |-> d[k].val.bytes,
                         key |-> <<"dl_">> \o d[k].key]]

\* Lines 175-181: uploaded_files[idx] for idx, _ in enumerate(store.items()).
\* Positions (1-based) at which the expression raises.
ComparisonRaises(d, files) ==
    { k \in DOMAIN d : k > Len(files) \/ files[k].data = Corrupt }
ComparisonShown(d, files) ==
    IF ComparisonRaises(d, files) = {} THEN Len(d)
    ELSE (CHOOSE k \in ComparisonRaises(d, files) :
            \A j \in ComparisonRaises(d, files) : k <= j) - 1

\* ---------------------------------------------------------------- script runs
UploadNames(files) == { files[k].name : k \in DOMAIN files }

\* A widget interaction starts a new script run from the top.
StartRun(click) ==
    /\ pc' = "batch"
    /\ i' = 0
    /\ session' = 0
    /\ clicked' = click
    /\ attempts' = << >>
    /\ errors' = << >>
    /\ progress' = << >>
    /\ bar' = "none"
    /\ fatal' = FALSE
    /\ zip' = << >>
    /\ downloads' = << >>
    /\ originals' = << >>
    /\ crashed' = "none"
    /\ button' = FALSE
    /\ UNCHANGED << processed_images, cache, sessions, load_failures,
                    batch_inputs, produced_by >>

AddFile(name, data) ==
    /\ pc = "idle"
    /\ Len(uploaded_files) < MaxFiles
    /\ uploaded_files' = Append(uploaded_files, [name |-> name, data |-> data])
    /\ UNCHANGED << selected_model, use_alpha_matting >>
    /\ StartRun(FALSE)

RemoveFile(k) ==
    /\ pc = "idle"
    /\ k \in DOMAIN uploaded_files
    /\ uploaded_files' = [j \in 1..(Len(uploaded_files) - 1) |->
                            IF j < k THEN uploaded_files[j] ELSE uploaded_files[j + 1]]
    /\ UNCHANGED << selected_model, use_alpha_matting >>
    /\ StartRun(FALSE)

SelectModel(m) ==
    /\ pc = "idle"
    /\ m # selected_model
    /\ selected_model' = m
    /\ UNCHANGED << uploaded_files, use_alpha_matting >>
    /\ StartRun(FALSE)

ToggleAlphaMatting ==
    /\ pc = "idle"
    /\ use_alpha_matting' = ~use_alpha_matting
    /\ UNCHANGED << uploaded_files, selected_model >>
    /\ StartRun(FALSE)

\* Line 189: the button exists only in a run that rendered it.
ClickProcessNewBatch ==
    /\ pc = "idle"
    /\ button
    /\ UNCHANGED widgets
    /\ StartRun(TRUE)

\* Line 107 false
NoUploads ==
    /\ pc = "batch"
    /\ uploaded_files = << >>
    /\ pc' = "results"
    /\ UNCHANGED << widgets, processed_images, cache, sessions, load_failures, i,
                    session, clicked, batch_inputs, produced_by, runlog >>

\* Lines 107-113 with a cached session
LoadCached ==
    /\ pc = "batch"
    /\ uploaded_files # << >>
    /\ CacheHit(selected_model)
    /\ bar' = "shown"
    /\ batch_inputs' = UploadNames(uploaded_files)
    /\ session' = cache[selected_model]
    /\ processed_images' = << >>
    /\ produced_by' = << >>
    /\ i' = 0
    /\ pc' = "loop"
    /\ UNCHANGED << widgets, cache, sessions, load_failures, clicked, attempts, errors,
                    progress, fatal, zip, downloads, originals, crashed, button >>

\* Lines 107-113, new_session builds a session and the cache keeps it
LoadConstruct ==
    /\ pc = "batch"
    /\ uploaded_files # << >>
    /\ ~CacheHit(selected_model)
    /\ bar' = "shown"
    /\ batch_inputs' = UploadNames(uploaded_files)
    /\ sessions' = Append(sessions, selected_model)
    /\ cache' = (selected_model :> (Len(sessions) + 1)) @@ cache
    /\ session' = Len(sessions) + 1
    /\ processed_images' = << >>
    /\ produced_by' = << >>
    /\ i' = 0
    /\ pc' = "loop"
    /\ UNCHANGED << widgets, load_failures, clicked, attempts, errors,
                    progress, fatal, zip, downloads, originals, crashed, button >>

\* Lines 107-110, new_session raises: nothing is cached, line 113 is not reached
LoadFail ==
    /\ pc = "batch"
    /\ uploaded_files # << >>
    /\ ~CacheHit(selected_model)
    /\ load_failures < MaxLoadFailures
    /\ load_failures' = load_failures + 1
    /\ bar' = "shown"
    /\ batch_inputs' = UploadNames(uploaded_files)
    /\ fatal' = TRUE
    /\ pc' = ScriptAfterLoadError
    /\ clicked' = FALSE
    /\ UNCHANGED << widgets, processed_images, cache, sessions, i, session, produced_by,
                    attempts, errors, progress, zip, downloads, originals, crashed,
                    button >>

\* Lines 116-130, one iteration
ProcessItem ==
    /\ pc = "loop"
    /\ i < Len(uploaded_files)
    /\ LET file == uploaded_files[i + 1] IN
       \E outcome \in Outcomes(file) :
          LET result == process_single_image(file, session, use_alpha_matting, outcome) IN
          /\ attempts' = Append(attempts, i)
          /\ errors' = IF outcome = "ok" THEN errors
                       ELSE Append(errors, [item |-> i, name |-> file.name])
          /\ processed_images' = StoreResult(processed_images, file, result)
          /\ produced_by' = IF result.ok THEN (file.name :> i) @@ produced_by
                            ELSE produced_by
          /\ progress' = Append(progress, ProgressValue(i, Len(uploaded_files)))
    /\ i' = i + 1
    /\ UNCHANGED << widgets, cache, sessions, load_failures, pc, session, clicked,
                    batch_inputs, bar, fatal, zip, downloads, originals, crashed, button >>

\* Lines 132-133
FinishBatch ==
    /\ pc = "loop"
    /\ i >= Len(uploaded_files)
    /\ bar' = "emptied"
    /\ pc' = "results"
    /\ UNCHANGED << widgets, processed_images, cache, sessions, load_failures, i, session,
                    clicked, batch_inputs, produced_by, attempts, errors, progress, fatal,
                    zip, downloads, originals, crashed, button >>

\* Lines 136-189 without a pending click, or with the comparison loop raising
RenderResults ==
    /\ pc = "results"
    /\ processed_images # << >>
    /\ LET shown == ComparisonShown(processed_images, uploaded_files)
           raises == ComparisonRaises(processed_images, uploaded_files) IN
       /\ raises # {} \/ ~clicked
       /\ zip' = BuildZip(processed_images)
       /\ downloads' = BuildDownloads(processed_images)
       /\ originals' = [k \in 1..shown |-> uploaded_files[k]]
       /\ crashed' = IF raises = {} THEN "none"
                     ELSE IF shown + 1 > Len(uploaded_files) THEN "IndexError"
                     ELSE "UnidentifiedImageError"
       /\ button' = (raises = {})
    /\ clicked' = FALSE
    /\ pc' = "idle"
    /\ UNCHANGED << widgets, processed_images, cache, sessions, load_failures, i, session,
                    batch_inputs, produced_by, attempts, errors, progress, bar, fatal >>

\* Lines 136-191 with the button pressed: the store is emptied and st.rerun()
\* starts the script again.
ProcessNewBatch ==
    /\ pc = "results"
    /\ processed_images # << >>
    /\ ComparisonRaises(processed_images, uploaded_files) = {}
    /\ clicked
    /\ processed_images' = << >>
    /\ produced_by' = << >>
    /\ pc' = "batch"
    /\ i' = 0
    /\ session' = 0
    /\ clicked' = FALSE
    /\ attempts' = << >>
    /\ errors' = << >>
    /\ progress' = << >>
    /\ bar' = "none"
    /\ fatal' = FALSE
    /\ zip' = << >>
    /\ downloads' = << >>
    /\ originals' = << >>
    /\ crashed' = "none"
    /\ button' = FALSE
    /\ UNCHANGED << widgets, cache, sessions, load_failures, batch_inputs >>

\* Lines 193-198
RenderPlaceholder ==
    /\ pc = "results"
    /\ processed_images = << >>
    /\ clicked' = FALSE
    /\ pc' = "idle"
    /\ UNCHANGED << widgets, processed_images, cache, sessions, load_failures, i, session,
                    batch_inputs, produced_by, runlog >>

\* The user works the uploader and the button; the settings keep their defaults.
Next ==
    \/ \E name \in Names, data \in Data : AddFile(name, data)
    \/ \E k \in 1..MaxFiles : RemoveFile(k)
    \/ ClickProcessNewBatch
    \/ NoUploads
    \/ LoadCached
    \/ LoadConstruct
    \/ LoadFail
    \/ ProcessItem
    \/ FinishBatch
    \/ RenderResults
    \/ ProcessNewBatch
    \/ RenderPlaceholder

Spec == Init /\ [][Next]_vars

\* The user also changes the model and the alpha-matting option; the uploads
\* are drawn from a smaller set of files.
SettingsNames == { <<"cat", "png">>, <<"a", "png">> }
SettingsData == { "img1" }

NextSettings ==
    \/ \E name \in SettingsNames, data \in SettingsData : AddFile(name, data)
    \/ \E k \in 1..MaxFiles : RemoveFile(k)
    \/ \E m \in Models : SelectModel(m)
    \/ ToggleAlphaMatting
    \/ ClickProcessNewBatch
    \/ NoUploads
    \/ LoadCached
    \/ LoadConstruct
    \/ LoadFail
    \/ ProcessItem
    \/ FinishBatch
    \/ RenderResults
    \/ ProcessNewBatch
    \/ RenderPlaceholder

SpecSettings == Init /\ [][NextSettings]_vars

\* ------------------------------------------------------------ observations
N == Len(uploaded_files)
\* The loop of this run has ended (line 132 was executed).
BatchDone == bar = "emptied"
\* Line 113 was executed in this run: the store holds this run's results only.
StoreOfThisRun == bar # "none" /\ ~fatal
ErrorItems == { errors[e].item : e \in DOMAIN errors }
OkItems == { attempts[a] : a \in DOMAIN attempts } \ ErrorItems
ItemName(k) == uploaded_files[k + 1].name
\* What a successful process_single_image of item k (0-based) returns
Expected(k) == process_single_image(uploaded_files[k + 1], session, use_alpha_matting, "ok")
StoredUnder(name) == { k \in DOMAIN processed_images : processed_images[k].key = name }
Last(S) == CHOOSE k \in S : \A j \in S : j <= k
First(S) == CHOOSE k \in S : \A j \in S : k <= j
OkItemsNamed(name) == { k \in OkItems : ItemName(k) = name }

\* C1: every key of processed_images is a filename of the most recent batch's
\* inputs, and no stored output comes from an item that failed.
C1_StoreKeysInMostRecentBatch ==
    /\ \A k \in DOMAIN processed_images : processed_images[k].key \in batch_inputs
    /\ StoreOfThisRun =>
         \A k \in DOMAIN processed_images :
             produced_by[processed_images[k].key] \notin ErrorItems

\* C2: every item of a batch is attempted exactly once and in input order,
\* whatever happened to the items before it; each failure is reported once,
\* under the item's filename; the store holds exactly the filenames of the
\* items that succeeded, each with the output of an item of that name.
C2_EveryItemAttemptedOnce ==
    /\ pc = "loop" => attempts = [k \in 1..i |-> k - 1]
    /\ \A e \in DOMAIN errors :
          /\ errors[e].item \in 0..(N - 1)
          /\ errors[e].name = ItemName(errors[e].item)
          /\ \A f \in DOMAIN errors : errors[f].item = errors[e].item => f = e
    /\ BatchDone =>
          /\ attempts = [k \in 1..N |-> k - 1]
          /\ \A k \in 0..(N - 1) :
                 uploaded_files[k + 1].data = Corrupt => k \in ErrorItems
          /\ { processed_images[k].key : k \in DOMAIN processed_images }
                = { ItemName(k) : k \in OkItems }
          /\ \A k \in OkItems :
                \E j \in OkItemsNamed(ItemName(k)) :
                    /\ j >= k
                    /\ DictGet(processed_images, ItemName(k)).bytes = Expected(j).bytes

C2_Witness ==
    /\ BatchDone
    /\ N = 3
    /\ ErrorItems = {1}
    /\ uploaded_files[2].data = Corrupt
    /\ Len(processed_images) = 2
    /\ processed_images[1].key = ItemName(0)
    /\ processed_images[2].key = ItemName(2)

\* C3: when load_ai_session raises, the run ends there: no item is attempted,
\* no per-item error is reported, no progress value is emitted, nothing is
\* rendered, and the failure is not among the per-item errors.
C3_FatalLoadProcessesNothing ==
    fatal =>
        /\ pc = "idle"
        /\ attempts = << >>
        /\ errors = << >>
        /\ progress = << >>
        /\ i = 0
        /\ session = 0
        /\ zip = << >>
        /\ downloads = << >>

C3_Witness == fatal /\ N >= 2 /\ processed_images # << >>

\* C5: progress_bar.progress is called once after every item, failed or not,
\* with (i + 1) / N; the values lie in [0, 1], never decrease and end at 1.
C5_ProgressOncePerItem ==
    /\ pc = "loop" => Len(progress) = i
    /\ \A k \in DOMAIN progress :
          /\ progress[k] = <<k, N>>
          /\ 0 <= progress[k][1] /\ progress[k][1] <= progress[k][2]
          /\ \A j \in 1..k :
                progress[j][1] * progress[k][2] <= progress[k][1] * progress[j][2]
    /\ BatchDone =>
          /\ Len(progress) = N
          /\ Len(progress) = Len(attempts)
          /\ progress[N][1] = progress[N][2]

C5_Witness == BatchDone /\ N = 3 /\ ErrorItems = {0, 2} /\ Len(progress) = 3

\* Pairs j < k of items of the batch with the same filename, different content
\* and no third item of that name
SameNamePairs ==
    { p \in (0..(N - 1)) \X (0..(N - 1)) :
        /\ p[1] < p[2]
        /\ ItemName(p[1]) = ItemName(p[2])
        /\ uploaded_files[p[1] + 1].data # uploaded_files[p[2] + 1].data
        /\ \A q \in 0..(N - 1) : ItemName(q) = ItemName(p[1]) => q \in {p[1], p[2]} }

\* C4 as claimed: after a batch with two items of the same filename and
\* different content, the store has exactly one entry under that filename and
\* it holds the output of the later item, whether the items succeeded or not.
C4_LaterItemAlwaysWins ==
    BatchDone =>
        \A p \in SameNamePairs :
            /\ Cardinality(StoredUnder(ItemName(p[2]))) = 1
            /\ DictGet(processed_images, ItemName(p[2])).bytes = Expected(p[2]).bytes

\* C4, amended: the store never has two entries under one filename; the entry
\* holds the output of the later item when the later item succeeded, the
\* output of the earlier item when only the earlier one succeeded, and there
\* is no entry when both failed.
C4_LastSuccessfulItemWins ==
    /\ \A j, k \in DOMAIN processed_images :
          processed_images[j].key = processed_images[k].key => j = k
    /\ BatchDone =>
          \A p \in SameNamePairs :
              LET name == ItemName(p[2]) IN
              /\ p[2] \in OkItems =>
                    /\ Cardinality(StoredUnder(name)) = 1
                    /\ DictGet(processed_images, name).bytes = Expected(p[2]).bytes
                    /\ DictGet(processed_images, name).image = Expected(p[2]).image
                    /\ DictGet(processed_images, name).bytes # Expected(p[1]).bytes
              /\ (p[2] \notin OkItems /\ p[1] \in OkItems) =>
                    /\ Cardinality(StoredUnder(name)) = 1
                    /\ DictGet(processed_images, name).bytes = Expected(p[1]).bytes
              /\ (p[2] \notin OkItems /\ p[1] \notin OkItems) =>
                    StoredUnder(name) = {}

\* The later item is a valid image whose processing failed; the entry keeps
\* the earlier item's output.
C4_Witness ==
    /\ BatchDone
    /\ \E p \in SameNamePairs :
          /\ p[1] \in OkItems
          /\ p[2] \notin OkItems
          /\ uploaded_files[p[2] + 1].data # Corrupt
          /\ DictGet(processed_images, ItemName(p[2])).bytes = Expected(p[1]).bytes

\* The results block was rendered by this run (the store was not empty).
ResultsRendered == zip # << >>

\* C6: the archive holds, for every store entry with filename f and payload P,
\* an entry named no_bg_<stem of f>.png with bytes P, and no other entry; the
\* name keeps the stem and replaces the extension by png.
C6_ArchiveHoldsEveryStoreEntry ==
    ResultsRendered =>
        /\ Len(zip) = Len(processed_images)
        /\ \A k \in DOMAIN processed_images :
              \E e \in DOMAIN zip :
                  /\ zip[e].name = <<"no_bg_", processed_images[k].key[1], "png">>
                  /\ zip[e].data = processed_images[k].val.bytes
        /\ \A e \in DOMAIN zip :
              \E k \in DOMAIN processed_images :
                  /\ zip[e].name = <<"no_bg_", processed_images[k].key[1], "png">>
                  /\ zip[e].data = processed_images[k].val.bytes
        /\ \A k \in DOMAIN processed_images :
              Cardinality({ e \in DOMAIN zip :
                              zip[e].name = <<"no_bg_", processed_images[k].key[1], "png">> })
                = Cardinality({ j \in DOMAIN processed_images :
                                  processed_images[j].key[1] = processed_images[k].key[1] })

C6_Witness ==
    /\ ResultsRendered
    /\ Len(processed_images) = 2
    /\ processed_images[1].key = <<"a", "png">>
    /\ processed_images[2].key = <<"cat", "jpg">>
    /\ processed_images[1].val.bytes # processed_images[2].val.bytes
    /\ zip[1] = [name |-> <<"no_bg_", "a", "png">>, data |-> processed_images[1].val.bytes]
    /\ zip[2] = [name |-> <<"no_bg_", "cat", "png">>, data |-> processed_images[2].val.bytes]

\* C7: new_session is never called twice for one model while the first
\* session is cached; the cache maps every model it holds to the one session
\* built for it, different models to different sessions; a run's session is
\* the cached one; a failed construction leaves the model uncached.
C7_OneSessionPerModel ==
    /\ \A j, k \in DOMAIN sessions : sessions[j] = sessions[k] => j = k
    /\ \A m \in DOMAIN cache : cache[m] \in DOMAIN sessions /\ sessions[cache[m]] = m
    /\ \A k \in DOMAIN sessions : sessions[k] \in DOMAIN cache
    /\ \A m1, m2 \in DOMAIN cache : m1 # m2 => cache[m1] # cache[m2]
    /\ session # 0 => selected_model \in DOMAIN cache /\ session = cache[selected_model]
    /\ fatal => selected_model \notin DOMAIN cache /\ session = 0

\* A run that got its session from the cache (it is not the newest session),
\* after an earlier construction failed.
C7_Witness ==
    /\ pc = "loop"
    /\ Len(sessions) = 3
    /\ session # 0
    /\ session < Len(sessions)
    /\ load_failures >= 1

\* C8 as claimed: an entry whose stored output was produced earlier in the
\* batch is iterated before an entry whose stored output was produced later.
C8_StoreInProductionOrder ==
    BatchDone =>
    \A j, k \in DOMAIN processed_images :
        j < k => produced_by[processed_images[j].key] < produced_by[processed_images[k].key]

\* C8, amended: the store iterates its filenames in the order in which each
\* filename first succeeded in the batch (a later item of the same name
\* replaces the output without moving the entry); the archive and the
\* download buttons follow the store's order.
C8_StoreInFirstSuccessOrder ==
    /\ StoreOfThisRun =>
          \A j, k \in DOMAIN processed_images :
              j < k => First(OkItemsNamed(processed_images[j].key))
                         < First(OkItemsNamed(processed_images[k].key))
    /\ ResultsRendered =>
          /\ Len(zip) = Len(processed_images)
          /\ Len(downloads) = Len(processed_images)
          /\ \A k \in DOMAIN processed_images :
                /\ zip[k].name = ArchiveName(processed_images[k].key)
                /\ downloads[k].key = <<"dl_">> \o processed_images[k].key

\* A batch a.png, cat.png, a.png, all successful: the entry of a.png holds the
\* output produced last and is still iterated first.
C8_Witness ==
    /\ ResultsRendered
    /\ N = 3
    /\ OkItems = {0, 1, 2}
    /\ ItemName(0) = ItemName(2)
    /\ ItemName(0) # ItemName(1)
    /\ processed_images[1].key = ItemName(0)
    /\ produced_by[ItemName(0)] = 2

\* C9: the archive is the one written from the current store; what is read
\* under an archive path is the payload of the download button of the
\* last-iterated store entry with that stem; entries of equal stem are both
\* written, in store order, under one path.
C9_ArchiveMatchesDownloads ==
    ResultsRendered =>
        /\ zip = BuildZip(processed_images)
        /\ \A path \in ZipNames(zip) :
              LET same == { k \in DOMAIN processed_images :
                              Stem(processed_images[k].key) = SubSeq(path, 2, Len(path) - 1) }
              IN /\ same # {}
                 /\ downloads[Last(same)].file_name = path
                 /\ ZipRead(zip, path) = downloads[Last(same)].data
                 /\ ZipRead(zip, path) = processed_images[Last(same)].val.bytes
                 /\ \A k \in same : zip[k].name = path
                                    /\ zip[k].data = processed_images[k].val.bytes

\* cat.png and cat.jpg with different payloads: cat.png is shadowed.
C9_Witness ==
    /\ ResultsRendered
    /\ Len(processed_images) = 2
    /\ processed_images[1].key = <<"cat", "png">>
    /\ processed_images[2].key = <<"cat", "jpg">>
    /\ processed_images[1].val.bytes # processed_images[2].val.bytes
    /\ ZipRead(zip, <<"no_bg_", "cat", "png">>) = processed_images[2].val.bytes

\* C10: whenever the comparison is rendered, every position idx of the store
\* is an index of the upload list and uploaded_files[idx] is the upload named
\* by the idx-th key, so that the loop shows each result's own source.
C10_OriginalIsOwnSource ==
    ResultsRendered =>
        /\ crashed = "none"
        /\ Len(originals) = Len(processed_images)
        /\ \A k \in DOMAIN processed_images :
              /\ k \in DOMAIN uploaded_files
              /\ uploaded_files[k].name = processed_images[k].key
              /\ originals[k].name = processed_images[k].key
====
